---------------------------- MODULE Spec2Model ----------------------------
(***************************************************************************)
(* Model of the packing-list web application (src/main.py): the vehicle /  *)
(* place / item tables, the session flag, and the request handlers that    *)
(* write to them.  Strings are sequences of one-character strings so that  *)
(* strip() and lower() are computed rather than assumed.                   *)
(***************************************************************************)
EXTENDS Integers, Sequences, FiniteSets, TLC

VARIABLES db, user, req, resp, run, pc

vars == <<db, user, req, resp, run, pc>>

(* ------------------------------ bounds -------------------------------- *)

MaxVehicleId == 2
MaxPlaceId == 2
MaxItemId == 3
MaxSort == 3
NumWorkers == 2

(* ------------------------------ strings ------------------------------- *)

UpperChars ==
    <<"A", "B", "C", "D", "E", "F", "G", "H", "I", "J", "K", "L", "M", "N",
     "O", "P", "Q", "R", "S", "T", "U", "V", "W", "X", "Y", "Z", "Å">>
LowerChars ==
    <<"a", "b", "c", "d", "e", "f", "g", "h", "i", "j", "k", "l", "m", "n",
     "o", "p", "q", "r", "s", "t", "u", "v", "w", "x", "y", "z", "å">>

LowerChar(c) ==
    IF \E i \in 1..Len(UpperChars) : UpperChars[i] = c
    THEN LowerChars[CHOOSE i \in 1..Len(UpperChars) : UpperChars[i] = c]
    ELSE c

Lower(s) == [i \in 1..Len(s) |-> LowerChar(s[i])]

IsSpace(c) == c \in {" ", "\t"}

RECURSIVE LStrip(_)
LStrip(s) == IF s # <<>> /\ IsSpace(Head(s)) THEN LStrip(Tail(s)) ELSE s

RECURSIVE RStrip(_)
RStrip(s) ==
    IF s # <<>> /\ IsSpace(s[Len(s)]) THEN RStrip(SubSeq(s, 1, Len(s) - 1)) ELSE s

Strip(s) == RStrip(LStrip(s))


(* ------------------------------ tables -------------------------------- *)

Max(S) == CHOOSE x \in S : \A y \in S : y <= x

Ids(table) == {r.id : r \in table}

Get(table, id) == IF id \in Ids(table) THEN {r \in table : r.id = id} ELSE {}

NextId(table) == IF table = {} THEN 1 ELSE Max(Ids(table)) + 1

NewVehicle(id, name) == [id |-> id, name |-> name, sort |-> 0, description |-> <<>>]

NewPlace(id, name, vehicle_id, sort) ==
    [id |-> id, name |-> name, sort |-> sort, vehicle_id |-> vehicle_id]

NewItem(id, place_id, name, quantity, note, sort) ==
    [id |-> id, name |-> name, quantity |-> quantity, note |-> note,
     sort |-> sort, place_id |-> place_id]

EmptyDb == [vehicles |-> {}, places |-> {}, items |-> {}]

PlacesOf(d, vehicle_id) == {p \in d.places : p.vehicle_id = vehicle_id}

ItemsOf(d, place_id) == {i \in d.items : i.place_id = place_id}

Coalesce(S, dflt) == IF S = {} THEN dflt ELSE Max(S)

MaxPlaceSort(d, vehicle_id) == Coalesce({p.sort : p \in PlacesOf(d, vehicle_id)}, 0)

\* the append forgets the siblings and always starts from the default
MaxItemSort_Default(d, place_id) == 0

MaxItemSort(d, place_id) == Coalesce({i.sort : i \in ItemsOf(d, place_id)}, 0)

InsertPlace(d, name, vehicle_id, sort) ==
    [d EXCEPT !.places = @ \cup {NewPlace(NextId(d.places), name, vehicle_id, sort)}]

InsertItem(d, place_id, name, quantity, note, sort) ==
    [d EXCEPT !.items =
        @ \cup {NewItem(NextId(d.items), place_id, name, quantity, note, sort)}]

\* the places are deleted without their items
DeletePlaces_KeepItems(d, gone) == [d EXCEPT !.places = @ \ gone]

DeletePlaces(d, gone) ==
    [d EXCEPT !.places = @ \ gone,
              !.items = {i \in @ : i.place_id \notin Ids(gone)}]

DeleteVehicle(d, v) ==
    LET d1 == DeletePlaces(d, PlacesOf(d, v.id))
    IN  [d1 EXCEPT !.vehicles = @ \ {v}]

(* ----------------------------- session -------------------------------- *)

ADMIN_USER == "admin"
ADMIN_PASS == "admin"
NoUser == ""

\* the session is taken to have a user whenever it exists
is_logged_in_Always(u) == TRUE

is_logged_in(u) == u # NoUser

None == 0 - 1

Redirect(path, id) == [status |-> 303, path |-> path, id |-> id]

ServerError == [status |-> 500, path |-> "", id |-> 0]

Page(path) == [status |-> 200, path |-> path, id |-> 0]

Out(d, r) == [db |-> d, resp |-> r]

require_login(d) == Out(d, Redirect("/login", 0))

login(u, username, password) ==
    IF username = ADMIN_USER /\ password = ADMIN_PASS
    THEN [user |-> username, resp |-> Redirect("/", 0)]
    ELSE [user |-> u, resp |-> Page("login.html")]

logout(u) == [user |-> NoUser, resp |-> Redirect("/?msg=Logget ud", 0)]

(* ----------------------------- vehicles ------------------------------- *)

vehicle_create(d, u, name) ==
    IF ~is_logged_in(u) THEN {require_login(d)}
    ELSE LET n == Strip(name)
         IN  IF \E v \in d.vehicles : v.name = n
             THEN {Out(d, ServerError)}
             ELSE {Out([d EXCEPT !.vehicles = @ \cup {NewVehicle(NextId(@), n)}],
                       Redirect("/vehicles", 0))}

vehicle_delete(d, u, vehicle_id) ==
    IF ~is_logged_in(u) THEN {require_login(d)}
    ELSE {Out(IF Get(d.vehicles, vehicle_id) # {}
              THEN DeleteVehicle(d, CHOOSE v \in d.vehicles : v.id = vehicle_id)
              ELSE d,
              Redirect("/?msg=Koretoj slettet", 0))}

(* ------------------------------ places -------------------------------- *)

place_add(d, u, vehicle_id, name) ==
    IF ~is_logged_in(u) THEN {require_login(d)}
    ELSE IF Get(d.vehicles, vehicle_id) = {}
         THEN {Out(d, Redirect("/?msg=Koretoj findes ikke", 0))}
         ELSE {Out(InsertPlace(d, Strip(name), vehicle_id,
                               MaxPlaceSort(d, vehicle_id) + 1),
                   Redirect("/vehicle", vehicle_id))}

place_rename(d, u, place_id, name) ==
    IF ~is_logged_in(u) THEN {require_login(d)}
    ELSE IF Get(d.places, place_id) = {}
         THEN {Out(d, Redirect("/", 0))}
         ELSE LET p == CHOOSE x \in d.places : x.id = place_id
              IN  {Out([d EXCEPT !.places = (@ \ {p}) \cup {[p EXCEPT !.name = Strip(name)]}],
                       Redirect("/vehicle", p.vehicle_id))}

\* the two directions mixed up
Delta_Inverted(direction) == IF direction = "down" THEN 0 - 1 ELSE 1

Delta(direction) == IF direction = "up" THEN 0 - 1 ELSE 1

\* the exchange written as two assignments in a row, without a temporary
SwapSort_Sequential(table, a, b) ==
    (table \ {a, b}) \cup {[a EXCEPT !.sort = b.sort], b}

SwapSort(table, a, b) ==
    (table \ {a, b}) \cup {[a EXCEPT !.sort = b.sort], [b EXCEPT !.sort = a.sort]}

PlaceNeighbors(d, p, direction) ==
    {n \in d.places : n.vehicle_id = p.vehicle_id /\ n.sort = p.sort + Delta(direction)}

place_move(d, u, place_id, direction) ==
    IF ~is_logged_in(u) THEN {require_login(d)}
    ELSE IF Get(d.places, place_id) = {}
         THEN {Out(d, Redirect("/", 0))}
         ELSE LET p == CHOOSE x \in d.places : x.id = place_id
                  ns == PlaceNeighbors(d, p, direction)
              IN  IF ns = {}
                  THEN {Out(d, Redirect("/vehicle", p.vehicle_id))}
                  ELSE {Out([d EXCEPT !.places = SwapSort(@, p, n)],
                            Redirect("/vehicle", p.vehicle_id)) : n \in ns}

(* ------------------------------- items -------------------------------- *)

VehicleIdOfPlace(d, place_id) ==
    IF Get(d.places, place_id) = {} THEN None
    ELSE (CHOOSE x \in d.places : x.id = place_id).vehicle_id

item_add(d, u, place_id, name, quantity, note) ==
    IF ~is_logged_in(u) THEN {require_login(d)}
    ELSE {Out(InsertItem(d, place_id, Strip(name), quantity, Strip(note),
                         MaxItemSort(d, place_id) + 1),
              Redirect("/vehicle", VehicleIdOfPlace(d, place_id)))}

item_edit(d, u, item_id, name, quantity, note, place_id) ==
    IF ~is_logged_in(u) THEN {require_login(d)}
    ELSE IF Get(d.items, item_id) = {}
         THEN {Out(d, Redirect("/", 0))}
         ELSE LET it == CHOOSE x \in d.items : x.id = item_id
                  ed == [it EXCEPT !.name = Strip(name), !.quantity = quantity,
                                   !.note = Strip(note), !.place_id = place_id]
              IN  {Out([d EXCEPT !.items = (@ \ {it}) \cup {ed}],
                       Redirect("/vehicle", VehicleIdOfPlace(d, place_id)))}

ItemNeighbors(d, it, direction) ==
    {n \in d.items : n.place_id = it.place_id /\ n.sort = it.sort + Delta(direction)}

item_move(d, u, item_id, direction) ==
    IF ~is_logged_in(u) THEN {require_login(d)}
    ELSE IF Get(d.items, item_id) = {}
         THEN {Out(d, Redirect("/", 0))}
         ELSE LET it == CHOOSE x \in d.items : x.id = item_id
                  ns == ItemNeighbors(d, it, direction)
                  to == Redirect("/vehicle", VehicleIdOfPlace(d, it.place_id))
              IN  IF ns = {}
                  THEN {Out(d, to)}
                  ELSE {Out([d EXCEPT !.items = SwapSort(@, it, n)], to) : n \in ns}

item_delete(d, u, item_id) ==
    IF ~is_logged_in(u) THEN {require_login(d)}
    ELSE IF Get(d.items, item_id) = {}
         THEN {Out(d, Redirect("/", 0))}
         ELSE LET it == CHOOSE x \in d.items : x.id = item_id
              IN  {Out([d EXCEPT !.items = @ \ {it}],
                       Redirect("/vehicle", VehicleIdOfPlace(d, it.place_id)))}


(* ------------------------------ import -------------------------------- *)

expected1 == <<<<"b", "r", "a", "n", "d", "b", "i", "l">>,
               <<"r", "u", "m", "/", "l", "å", "g", "e">>,
               <<"u", "d", "s", "t", "y", "r">>,
               <<"a", "n", "t", "a", "l">>,
               <<"n", "o", "t", "e">>>>

expected2 == SubSeq(expected1, 2, 5)

Header(rows) == [i \in 1..Len(rows[1]) |-> Lower(Strip(rows[1][i]))]

\* only the number of columns is compared
HeaderAccepted_ByWidth(header) == Len(header) = Len(expected1) \/ Len(header) = Len(expected2)

HeaderAccepted(header) == header = expected1 \/ header = expected2

Digits == <<"0", "1", "2", "3", "4", "5", "6", "7", "8", "9">>

IsDigit(c) == \E i \in 1..10 : Digits[i] = c

DigitValue(c) == (CHOOSE i \in 1..10 : Digits[i] = c) - 1

RECURSIVE DecimalValue(_)
DecimalValue(s) ==
    IF s = <<>> THEN 0
    ELSE DecimalValue(SubSeq(s, 1, Len(s) - 1)) * 10 + DigitValue(s[Len(s)])

IsDecimal(s) == s # <<>> /\ \A i \in 1..Len(s) : IsDigit(s[i])

\* int(qty) with the bare except around it: 1 when qty is no integer literal
ParseQty(qty) ==
    IF IsDecimal(qty) THEN DecimalValue(qty)
    ELSE IF qty # <<>> /\ qty[1] = "-" /\ IsDecimal(Tail(qty)) THEN 0 - DecimalValue(Tail(qty))
    ELSE IF qty # <<>> /\ qty[1] = "+" /\ IsDecimal(Tail(qty)) THEN DecimalValue(Tail(qty))
    ELSE 1

\* os.path.splitext(filename)[0]
SplitExtRoot(s) ==
    LET dots == {i \in 1..Len(s) : s[i] = "."}
        seps == {i \in 1..Len(s) : s[i] = "/"}
        dot == Coalesce(dots, 0)
        sep == Coalesce(seps, 0)
    IN  IF dot > sep /\ \E j \in (sep + 1)..(dot - 1) : s[j] # "."
        THEN SubSeq(s, 1, dot - 1)
        ELSE s

ImportPrefix == <<"I", "m", "p", "o", "r", "t", " ">>

Ukendt == <<"U", "k", "e", "n", "d", "t">>

One == <<"1">>

Or(s, dflt) == IF s = <<>> THEN dflt ELSE s

\* the rows loop; t is the sequence of committed database states so far,
\* place_map the places created by this import, keyed by name
RECURSIVE ImportRows(_, _, _, _, _, _)
ImportRows(t, vid, header, rows, k, place_map) ==
    IF k > Len(rows) THEN t
    ELSE LET r == rows[k]
             d == t[Len(t)]
         IN  IF r = <<>> \/ Len(r) < Len(header)
             THEN ImportRows(t, vid, header, rows, k + 1, place_map)
             ELSE LET o == IF header = expected1 THEN 1 ELSE 0
                      raw_place == Strip(r[o + 1])
                      item_name == Strip(r[o + 2])
                      qty == Or(Strip(r[o + 3]), One)
                      note == IF Len(r) > o + 3 THEN Strip(r[o + 4]) ELSE <<>>
                      place_name == IF raw_place = <<>> THEN Ukendt ELSE raw_place
                      known == \E e \in place_map : e.name = place_name
                      d1 == IF known THEN d
                            ELSE InsertPlace(d, place_name, vid, MaxPlaceSort(d, vid) + 1)
                      pid == IF known
                             THEN (CHOOSE e \in place_map : e.name = place_name).id
                             ELSE NextId(d.places)
                      map1 == IF known THEN place_map
                              ELSE place_map \cup {[name |-> place_name, id |-> pid]}
                      t1 == IF known THEN t ELSE Append(t, d1)
                      d2 == InsertItem(d1, pid, item_name, ParseQty(qty), note,
                                       MaxItemSort(d1, pid) + 1)
                  IN  ImportRows(Append(t1, d2), vid, header, rows, k + 1, map1)

\* the writes of one import from the vehicle lookup on; found holds the
\* vehicle the lookup returned and is empty when it returned none
ImportWrites(d, found, vehicle_name, header, rows) ==
    LET created == found = {}
        d1 == IF created
              THEN [d EXCEPT !.vehicles = @ \cup {NewVehicle(NextId(@), vehicle_name)}]
              ELSE d
        v == IF created THEN NewVehicle(NextId(d.vehicles), vehicle_name)
             ELSE CHOOSE x \in found : TRUE
        t1 == IF created THEN <<d, d1>> ELSE <<d>>
        d2 == DeletePlaces(d1, PlacesOf(d1, v.id))
    IN  [trace |-> ImportRows(Append(t1, d2), v.id, header, rows, 2, {}),
         resp |-> Redirect("/vehicle", v.id)]

Aborted(d, r) == [trace |-> <<d>>, resp |-> r]

\* every run of import_csv on database d: the database states it commits,
\* in order (the first is d itself), and its response
ImportRuns(d, u, file) ==
    LET rows == file.rows
    IN  IF ~is_logged_in(u) THEN {Aborted(d, require_login(d).resp)}
        ELSE IF rows = <<>> THEN {Aborted(d, Redirect("/import?msg=Tom fil", 0))}
        ELSE LET header == Header(rows)
             IN  IF ~HeaderAccepted(header)
                 THEN {Aborted(d, Redirect("/import?msg=Forkert header", 0))}
                 ELSE IF header = expected1 /\ (Len(rows) < 2 \/ rows[2] = <<>>)
                 THEN {Aborted(d, ServerError)}
                 ELSE LET vehicle_name == IF header = expected1 THEN Strip(rows[2][1])
                                          ELSE ImportPrefix \o SplitExtRoot(file.filename)
                          found == {v \in d.vehicles : Lower(v.name) = Lower(vehicle_name)}
                      IN  IF found = {}
                          THEN {ImportWrites(d, {}, vehicle_name, header, rows)}
                          ELSE {ImportWrites(d, {v}, vehicle_name, header, rows) : v \in found}

import_csv(d, u, file) ==
    {Out(r.trace[Len(r.trace)], r.resp) : r \in ImportRuns(d, u, file)}


(* ------------------------------ inputs -------------------------------- *)

VehicleNames == {<<" ", "A">>}
PlaceNames == {<<"a", " ">>}
ItemNames == {<<"a">>}
Quantities == {1}
Notes == {<<>>}
Usernames == {ADMIN_USER, "guest"}
Passwords == {ADMIN_PASS, "wrong"}
Directions == {"up", "down"}

VehicleIds == 1..MaxVehicleId
PlaceIds == 1..MaxPlaceId
ItemIds == 1..MaxItemId

Header5 == <<<<" ", "B", "r", "a", "n", "d", "b", "i", "l">>, <<"R", "u", "m", "/", "L", "å", "g", "e">>, <<"U", "D", "S", "T", "Y", "R">>, <<"a", "n", "t", "a", "l">>, <<"N", "o", "t", "e", " ">>>>
Header4 == <<<<"R", "u", "m", "/", "L", "å", "g", "e">>, <<"U", "d", "s", "t", "y", "r">>, <<"A", "n", "t", "a", "l">>, <<"N", "o", "t", "e">>>>

Files ==
    {[filename |-> <<"b", ".", "c", "s", "v">>, rows |-> <<>>],
     [filename |-> <<"b", ".", "c", "s", "v">>, rows |-> <<<<<<"R", "u", "m">>, <<"U", "d", "s", "t", "y", "r">>, <<"A", "n", "t", "a", "l">>, <<"N", "o", "t", "e">>>>, <<<<"a">>, <<"a">>, <<"2">>, <<>>>>>>],
     [filename |-> <<"b", ".", "c", "s", "v">>, rows |-> <<Header5>>],
     [filename |-> <<"b", ".", "c", "s", "v">>, rows |-> <<Header5, <<<<"a">>, <<"a">>, <<"a">>, <<>>, <<>>>>, <<<<"a">>, <<" ", "a">>, <<"a", " ">>, <<"x">>, <<>>>>>>]}

MoreFiles ==
    {[filename |-> <<"b", ".", "c", "s", "v">>, rows |-> <<<<>>, <<<<"a">>, <<"a">>, <<"a">>, <<>>, <<>>>>>>],
     [filename |-> <<"b", ".", "c", "s", "v">>, rows |-> <<<<<<"B", "i", "l">>, <<"R", "u", "m", "/", "L", "å", "g", "e">>, <<"U", "d", "s", "t", "y", "r">>, <<"A", "n", "t", "a", "l">>, <<"N", "o", "t", "e">>>>, <<<<"a">>, <<"a">>, <<"a">>, <<>>, <<>>>>>>],
     [filename |-> <<"b", ".", "c", "s", "v">>, rows |-> <<Header5, <<<<"A">>, <<>>, <<"a">>, <<"2">>, <<>>>>, <<>>, <<<<"A">>, <<"b">>, <<"a">>>>, <<<<"A">>, <<"b">>, <<>>, <<"-", "1">>, <<"n">>>>>>],
     [filename |-> <<"b", ".", "c", "s", "v">>, rows |-> <<Header4, <<<<"a">>, <<"a">>, <<"2">>, <<>>>>, <<<<"b">>, <<"a">>, <<>>, <<>>>>>>]}

WithinBounds(d) ==
    /\ \A v \in d.vehicles : v.id <= MaxVehicleId
    /\ \A p \in d.places : p.id <= MaxPlaceId /\ p.sort <= MaxSort
    /\ \A i \in d.items : i.id <= MaxItemId /\ i.sort <= MaxSort

(* --------------------------- state machine ---------------------------- *)

Request(op, id, dir) == [op |-> op, id |-> id, dir |-> dir]

NoRun == [kind |-> "none", parent |-> 0, ids |-> <<>>]

\* the children appended to one parent by the requests handled since the
\* last request that was anything else
Extend(kind, parent, before, after) ==
    IF after = before THEN NoRun
    ELSE LET id == CHOOSE x \in Ids(after) : x \notin Ids(before)
         IN  IF run.kind = kind /\ run.parent = parent
             THEN [run EXCEPT !.ids = Append(@, id)]
             ELSE [kind |-> kind, parent |-> parent, ids |-> <<id>>]

Idle == [at |-> "idle", kind |-> "none", parent |-> 0, name |-> <<>>, max_sort |-> 0]

Init ==
    /\ db = EmptyDb
    /\ user = NoUser
    /\ req = Request("boot", 0, "")
    /\ resp = Page("index.html")
    /\ run = NoRun
    /\ pc = [w \in 1..NumWorkers |-> Idle]

Handle(outs, request) ==
    \E o \in outs :
        /\ WithinBounds(o.db)
        /\ db' = o.db
        /\ resp' = o.resp
        /\ req' = request
        /\ UNCHANGED <<user, pc>>

Login ==
    \E username \in Usernames, password \in Passwords :
        LET o == login(user, username, password)
        IN  /\ user' = o.user
            /\ resp' = o.resp
            /\ req' = Request("login", 0, "")
            /\ run' = NoRun
            /\ UNCHANGED <<db, pc>>

Logout ==
    /\ user' = logout(user).user
    /\ resp' = logout(user).resp
    /\ req' = Request("logout", 0, "")
    /\ run' = NoRun
    /\ UNCHANGED <<db, pc>>

VehicleCreate ==
    \E name \in VehicleNames :
        /\ Handle(vehicle_create(db, user, name), Request("vehicle_create", 0, ""))
        /\ run' = NoRun

VehicleDelete ==
    \E id \in VehicleIds :
        /\ Handle(vehicle_delete(db, user, id), Request("vehicle_delete", id, ""))
        /\ run' = NoRun

PlaceAddTo(id) ==
    \E name \in PlaceNames :
        /\ Handle(place_add(db, user, id, name), Request("place_add", 0, ""))
        /\ run' = Extend("place", id, db.places, db'.places)

PlaceAdd == \E id \in VehicleIds : PlaceAddTo(id)

PlaceRename ==
    \E id \in PlaceIds, name \in PlaceNames :
        /\ Handle(place_rename(db, user, id, name), Request("place_rename", 0, ""))
        /\ run' = NoRun

PlaceMove ==
    \E id \in PlaceIds, dir \in Directions :
        /\ Handle(place_move(db, user, id, dir), Request("place_move", id, dir))
        /\ run' = NoRun

ItemAddTo(id) ==
    \E name \in ItemNames, quantity \in Quantities, note \in Notes :
        /\ Handle(item_add(db, user, id, name, quantity, note), Request("item_add", 0, ""))
        /\ run' = Extend("item", id, db.items, db'.items)

ItemAdd == \E id \in PlaceIds : ItemAddTo(id)

ItemEdit ==
    \E id \in ItemIds, name \in ItemNames, quantity \in Quantities, note \in Notes,
       place_id \in PlaceIds :
        /\ Handle(item_edit(db, user, id, name, quantity, note, place_id),
                  Request("item_edit", 0, ""))
        /\ run' = NoRun

ItemMove ==
    \E id \in ItemIds, dir \in Directions :
        /\ Handle(item_move(db, user, id, dir), Request("item_move", id, dir))
        /\ run' = NoRun

ItemDelete ==
    \E id \in ItemIds :
        /\ Handle(item_delete(db, user, id), Request("item_delete", 0, ""))
        /\ run' = NoRun

ImportCsv ==
    \E file \in Files :
        /\ Handle(import_csv(db, user, file), Request("import", 0, ""))
        /\ run' = NoRun

Next ==
    \/ Login
    \/ Logout
    \/ VehicleCreate
    \/ VehicleDelete
    \/ PlaceAdd
    \/ PlaceRename
    \/ PlaceMove
    \/ ItemAdd
    \/ ItemEdit
    \/ ItemMove
    \/ ItemDelete
    \/ ImportCsv

Spec == Init /\ [][Next]_vars


(* ------------------- import interrupted by a failure ------------------ *)

ImportMore ==
    \E file \in MoreFiles :
        /\ Handle(import_csv(db, user, file), Request("import", 0, ""))
        /\ run' = NoRun

\* the storage layer fails at the k-th commit of an import (or at a
\* statement before it): the commits made so far stay, the session is
\* closed and the request is answered with an error
ImportFail ==
    \E file \in Files \cup MoreFiles :
        \E r \in ImportRuns(db, user, file) :
            \E k \in 1..(Len(r.trace) - 1) :
                /\ WithinBounds(r.trace[Len(r.trace)])
                /\ db' = r.trace[k]
                /\ resp' = ServerError
                /\ req' = Request("import", 0, "")
                /\ run' = NoRun
                /\ UNCHANGED <<user, pc>>

NextImport ==
    \/ Login
    \/ VehicleCreate
    \/ PlaceAdd
    \/ ItemAdd
    \/ ImportCsv
    \/ ImportMore
    \/ ImportFail

SpecImport == Init /\ [][NextImport]_vars

(* ------------------------ concurrent appends -------------------------- *)

Workers == 1..NumWorkers

Respond(r, request) ==
    /\ resp' = r
    /\ req' = request
    /\ UNCHANGED <<db, user, run, pc>>

\* place_add up to and including the SELECT of max(sort)
PlaceAddRead(w) ==
    /\ pc[w].at = "idle"
    /\ \E vehicle_id \in VehicleIds, name \in PlaceNames :
        IF ~is_logged_in(user)
        THEN Respond(require_login(db).resp, Request("place_add", 0, ""))
        ELSE IF Get(db.vehicles, vehicle_id) = {}
        THEN Respond(Redirect("/?msg=Koretoj findes ikke", 0), Request("place_add", 0, ""))
        ELSE /\ pc' = [pc EXCEPT ![w] = [at |-> "insert", kind |-> "place",
                                         parent |-> vehicle_id, name |-> Strip(name),
                                         max_sort |-> MaxPlaceSort(db, vehicle_id)]]
             /\ UNCHANGED <<db, user, req, resp, run>>

\* place_add from the INSERT to the commit and the response
PlaceAddInsert(w) ==
    /\ pc[w].at = "insert" /\ pc[w].kind = "place"
    /\ LET d == InsertPlace(db, pc[w].name, pc[w].parent, pc[w].max_sort + 1)
       IN  /\ WithinBounds(d)
           /\ db' = d
    /\ resp' = Redirect("/vehicle", pc[w].parent)
    /\ req' = Request("place_add", 0, "")
    /\ pc' = [pc EXCEPT ![w] = Idle]
    /\ UNCHANGED <<user, run>>

\* item_add up to and including the SELECT of max(sort)
ItemAddRead(w) ==
    /\ pc[w].at = "idle"
    /\ \E place_id \in PlaceIds, name \in ItemNames :
        IF ~is_logged_in(user)
        THEN Respond(require_login(db).resp, Request("item_add", 0, ""))
        ELSE /\ pc' = [pc EXCEPT ![w] = [at |-> "insert", kind |-> "item",
                                         parent |-> place_id, name |-> Strip(name),
                                         max_sort |-> MaxItemSort(db, place_id)]]
             /\ UNCHANGED <<db, user, req, resp, run>>

\* item_add from the INSERT to the commit and the response
ItemAddInsert(w) ==
    /\ pc[w].at = "insert" /\ pc[w].kind = "item"
    /\ LET d == InsertItem(db, pc[w].parent, pc[w].name, 1, <<>>, pc[w].max_sort + 1)
       IN  /\ WithinBounds(d)
           /\ db' = d
    /\ resp' = Redirect("/vehicle", VehicleIdOfPlace(db, pc[w].parent))
    /\ req' = Request("item_add", 0, "")
    /\ pc' = [pc EXCEPT ![w] = Idle]
    /\ UNCHANGED <<user, run>>

NextConcurrent ==
    \/ Login
    \/ VehicleCreate
    \/ \E w \in Workers : PlaceAddRead(w)
    \/ \E w \in Workers : PlaceAddInsert(w)
    \/ \E w \in Workers : ItemAddRead(w)
    \/ \E w \in Workers : ItemAddInsert(w)

SpecConcurrent == Init /\ [][NextConcurrent]_vars


(* ------------------------------ listings ------------------------------ *)

\* every order in which a query ordered by sort may return the rows
Listings(rows) ==
    {f \in [1..Cardinality(rows) -> rows] :
        /\ \A i, j \in DOMAIN f : i # j => f[i] # f[j]
        /\ \A i, j \in DOMAIN f : i < j => f[i].sort <= f[j].sort}

RECURSIVE IdsAmong(_, _)
IdsAmong(f, ids) ==
    IF f = <<>> THEN <<>>
    ELSE IF Head(f).id \in ids THEN <<Head(f).id>> \o IdsAmong(Tail(f), ids)
    ELSE IdsAmong(Tail(f), ids)

Range(f) == {f[i] : i \in DOMAIN f}

Children(d, kind, parent) ==
    IF kind = "place" THEN PlacesOf(d, parent) ELSE ItemsOf(d, parent)

DistinctSorts(rows) == \A a, b \in rows : a # b => a.sort # b.sort

(* ------------------------------- claims ------------------------------- *)

\* C1: the children appended to one parent one after another, with no other
\* request in between, have pairwise distinct sort values that increase in
\* creation order, and every listing of the parent's children by sort
\* returns them in creation order.
C1_AppendsInCreationOrder ==
    run.kind # "none" =>
        LET rows == Children(db, run.kind, run.parent)
            sortOf(id) == (CHOOSE r \in rows : r.id = id).sort
        IN  /\ Range(run.ids) \subseteq Ids(rows)
            /\ \A i, j \in 1..Len(run.ids) : i < j => sortOf(run.ids[i]) < sortOf(run.ids[j])
            /\ \A f \in Listings(rows) : IdsAmong(f, Range(run.ids)) = run.ids

\* three items appended to one place in a row
C1_Witness == run.kind = "item" /\ Len(run.ids) = 3


\* the siblings of x (rows of the same parent) before it (up) or after it (down)
Beyond(siblings, x, dir) ==
    {n \in siblings : IF dir = "up" THEN n.sort < x.sort ELSE n.sort > x.sort}

\* those of them whose sort value is nearest to that of x
Nearest(siblings, x, dir) ==
    {n \in Beyond(siblings, x, dir) :
        \A m \in Beyond(siblings, x, dir) :
            IF dir = "up" THEN m.sort <= n.sort ELSE m.sort >= n.sort}

Row(table, id) == CHOOSE r \in table : r.id = id

\* C2: a move of a record that has a sibling before it (up) or after it
\* (down) exchanges the record's sort value with that of the nearest such
\* sibling, whether or not the sort values are contiguous.
C2_MoveExchangesWithNearest ==
    [][/\ \A id \in ItemIds, dir \in Directions :
            (/\ is_logged_in(user)
             /\ req' = Request("item_move", id, dir)
             /\ id \in Ids(db.items)
             /\ Beyond(ItemsOf(db, Row(db.items, id).place_id), Row(db.items, id), dir) # {})
            => \E n \in Nearest(ItemsOf(db, Row(db.items, id).place_id), Row(db.items, id), dir) :
                    db' = [db EXCEPT !.items = SwapSort(@, Row(db.items, id), n)]
       /\ \A id \in PlaceIds, dir \in Directions :
            (/\ is_logged_in(user)
             /\ req' = Request("place_move", id, dir)
             /\ id \in Ids(db.places)
             /\ Beyond(PlacesOf(db, Row(db.places, id).vehicle_id), Row(db.places, id), dir) # {})
            => \E n \in Nearest(PlacesOf(db, Row(db.places, id).vehicle_id), Row(db.places, id), dir) :
                    db' = [db EXCEPT !.places = SwapSort(@, Row(db.places, id), n)]
      ]_vars

\* C3: moving the first child of a parent up, or the last child down, leaves
\* the whole store as it was and is answered without an error.
C3_EdgeMoveIsNoOp ==
    /\ \A it \in db.items, dir \in Directions :
          Beyond(ItemsOf(db, it.place_id), it, dir) = {} =>
              \A o \in item_move(db, user, it.id, dir) : o.db = db /\ o.resp.status = 303
    /\ \A p \in db.places, dir \in Directions :
          Beyond(PlacesOf(db, p.vehicle_id), p, dir) = {} =>
              \A o \in place_move(db, user, p.id, dir) : o.db = db /\ o.resp.status = 303

\* the last request moved up an item that is the first of its place and has
\* siblings, none of which it could have been exchanged with
C3_Witness ==
    /\ is_logged_in(user)
    /\ req.op = "item_move" /\ req.dir = "up"
    /\ \E it \in db.items :
          /\ it.id = req.id
          /\ Beyond(ItemsOf(db, it.place_id), it, "up") = {}
          /\ Beyond(ItemsOf(db, it.place_id), it, "down") # {}
          /\ ItemNeighbors(db, it, "down") = {}
    /\ resp.status = 303


\* the orders in which the rows may be displayed, as sequences of ids
OrderOf(rows) == {IdsAmong(f, Ids(rows)) : f \in Listings(rows)}

C5_CascadeComplete ==
    is_logged_in(user) =>
        \A v \in db.vehicles :
            \A o \in vehicle_delete(db, user, v.id) :
                /\ v.id \notin Ids(o.db.vehicles)
                /\ PlacesOf(o.db, v.id) = {}
                /\ \A i \in o.db.items : i.place_id \notin Ids(PlacesOf(db, v.id))
                /\ o.resp.status = 303

\* the last request deleted vehicle 1 while vehicle 2 keeps a place and an
\* item
C5_Witness ==
    /\ is_logged_in(user)
    /\ req = Request("vehicle_delete", 1, "")
    /\ Ids(db.vehicles) = {2}
    /\ PlacesOf(db, 1) = {}
    /\ \E p \in PlacesOf(db, 2) : ItemsOf(db, p.id) # {}


\* the header row of the file has one of the two accepted layouts, compared
\* case-insensitively after trimming
AcceptedLayout(file) ==
    LET h == [i \in 1..Len(file.rows[1]) |-> Lower(Strip(file.rows[1][i]))]
    IN  h = expected1 \/ h = expected2

\* C6: an import whose header row has neither accepted layout writes
\* nothing, whatever its data rows are, and is answered with the header
\* message.
C6_BadHeaderRejected ==
    is_logged_in(user) =>
        \A file \in Files \cup MoreFiles :
            (file.rows # <<>> /\ ~AcceptedLayout(file)) =>
                \A r \in ImportRuns(db, user, file) :
                    /\ \A k \in 1..Len(r.trace) : r.trace[k] = db
                    /\ r.resp = Redirect("/import?msg=Forkert header", 0)

\* an import was just rejected for its header in a store that holds a
\* vehicle with a place and an item
C6_Witness ==
    /\ is_logged_in(user)
    /\ req.op = "import"
    /\ resp = Redirect("/import?msg=Forkert header", 0)
    /\ \E v \in db.vehicles : \E p \in PlacesOf(db, v.id) : ItemsOf(db, p.id) # {}

MutatingOps ==
    {"vehicle_create", "vehicle_delete", "place_add", "place_rename", "place_move",
     "item_add", "item_edit", "item_move", "item_delete", "import"}

\* C7: while the session has no user, every mutating request leaves the
\* store unchanged and is answered with the redirect to the login page; the
\* session gets a user only by a login with the configured username and
\* password, and loses it at logout.
C7_LoginRequired ==
    [][/\ user = NoUser =>
            /\ req'.op \in MutatingOps => (db' = db /\ resp' = Redirect("/login", 0))
            /\ \A username \in Usernames, password \in Passwords :
                  login(user, username, password).user # NoUser
                      <=> (username = ADMIN_USER /\ password = ADMIN_PASS)
       /\ (user = NoUser /\ user' # NoUser) => (req'.op = "login" /\ user' = ADMIN_USER)
       /\ (user # NoUser /\ user' = NoUser) => req'.op = "logout"
       /\ req'.op = "logout" => user' = NoUser
       /\ req'.op \notin {"login", "logout"} => user' = user
      ]_vars

\* a vehicle_delete was just refused in a store that holds a vehicle with a
\* place and an item
C7_Witness ==
    /\ user = NoUser
    /\ req.op = "vehicle_delete"
    /\ resp = Redirect("/login", 0)
    /\ \E v \in db.vehicles :
          v.id = req.id /\ \E p \in PlacesOf(db, v.id) : ItemsOf(db, p.id) # {}

\* C8: place_add for a vehicle that does not exist and item_add for a place
\* that does not exist leave the store unchanged, so that every stored place
\* has an existing vehicle and every stored item an existing place.
C8_MissingParentRejected ==
    [][/\ \A id \in VehicleIds :
            (is_logged_in(user) /\ Get(db.vehicles, id) = {} /\ PlaceAddTo(id)) => db' = db
       /\ \A id \in PlaceIds :
            (is_logged_in(user) /\ Get(db.places, id) = {} /\ ItemAddTo(id)) => db' = db
       /\ \A p \in db'.places : Get(db'.vehicles, p.vehicle_id) # {}
       /\ \A i \in db'.items : Get(db'.places, i.place_id) # {}
      ]_vars

\* C9: however concurrent appends to one parent interleave, the children of
\* a parent never share a sort value.
C9_NoDuplicateSort ==
    /\ \A v \in VehicleIds : DistinctSorts(PlacesOf(db, v))
    /\ \A p \in PlaceIds : DistinctSorts(ItemsOf(db, p))

\* C10: an import interrupted by a storage failure leaves the store as it
\* was before the import started.
C10_ImportAtomic == [][ImportFail => db' = db]_vars

\* the n-th column after the vehicle column of a data row of the file,
\* trimmed; a column the row does not have is blank
Column(file, r, n) ==
    LET o == IF Len(file.rows[1]) = 5 THEN 1 ELSE 0
    IN  IF Len(r) >= o + n THEN Strip(r[o + n]) ELSE <<>>

\* the data rows of the file that are not to be skipped, in file order
Remaining(file) ==
    SelectSeq(Tail(file.rows),
              LAMBDA r : Column(file, r, 1) # <<>> /\ Column(file, r, 2) # <<>>)

\* the item names of the remaining rows of one place, in file order
ItemNamesOf(file, place_name) ==
    LET s == SelectSeq(Remaining(file), LAMBDA r : Column(file, r, 1) = place_name)
    IN  [i \in 1..Len(s) |-> Column(file, s[i], 2)]

\* C11: an import that succeeds, into a store whose items all have their
\* place, leaves the target vehicle with exactly the places named by the rows
\* that are neither empty nor blank in the place or item column, and in each
\* place exactly one item per such row, listed in file order; a skipped row
\* creates no place and no item.
C11_BlankRowsSkipped ==
    [][\A file \in Files \cup MoreFiles :
          (/\ is_logged_in(user)
           /\ \A i \in db.items : i.place_id \in Ids(db.places)
           /\ file.rows # <<>> /\ AcceptedLayout(file)
           /\ req'.op = "import"
           /\ resp'.status = 303 /\ resp'.path = "/vehicle"
           /\ \E o \in import_csv(db, user, file) : db' = o.db /\ resp' = o.resp)
          => /\ {p.name : p \in PlacesOf(db', resp'.id)}
                    = {Column(file, r, 1) : r \in Range(Remaining(file))}
             /\ \A p \in PlacesOf(db', resp'.id) :
                    \A f \in Listings(ItemsOf(db', p.id)) :
                        [i \in DOMAIN f |-> f[i].name] = ItemNamesOf(file, p.name)
      ]_vars

=============================================================================
